---- MODULE Spec2Model ----
\* Model of azure_ad_user_roles_processor.py: the AccessTokenManager, the
\* per-user and per-tenant processing and the main script's fan-out.
\*
\* Two specifications share the definitions of the token manager:
\*   SpecCred  one AccessTokenManager called by several threads (its class
\*             contract: refresh_access_token_if_needed / get_token);
\*   Spec      the whole script: main, process_tenant, process_user.
EXTENDS Integers, Sequences, FiniteSets, TLC

\* ---------------------------------------------------------------- bounds
TimeStep == 150          \* seconds the clock advances in one Tick
MaxTicks == 1            \* ticks of the clock in one behaviour
MaxRequests == 2         \* token requests one manager may issue
MaxUsers == 2            \* user ids in the whole snapshot

\* ------------------------------------------------------ program constants
SafetyMargin == 300      \* expires_in - 300
NoToken == 0             \* token_info['token'] = None; tokens are 1, 2, ...
UserWorkers == 300       \* ThreadPoolExecutor(max_workers=300)
TenantWorkers == 5       \* ThreadPoolExecutor(max_workers=5)

\* ------------------------------------------------------------ input sets
TenantIds == {"A", "B"}
Callers == {"c1", "c2"}            \* threads sharing one manager (SpecCred)
Shared == "M"                      \* the manager they share
Threads == Callers \cup TenantIds  \* a tenant's task runs in its own thread
Managers == {Shared} \cup TenantIds
ExpiresInChoices == {300, 450}        \* token_data['expires_in']
NoThread == "none"

MgrOf(th) == IF th \in Callers THEN Shared ELSE th

VARIABLES
  now,          \* datetime.now(), seconds
  token,        \* manager -> token_info['token']
  expires_at,   \* manager -> token_info['expires_at']
  lock,         \* manager -> thread holding self.lock, or NoThread
  constructed,  \* manager -> "no" | "constructing" | "yes" | "failed"
  call,         \* thread -> position inside the manager method it is running
  requests,     \* manager -> token requests issued so far
  windowReqs,   \* manager -> requests belonging to the current validity window
  callReqs,     \* thread -> token requests issued by its current call
  handout,      \* thread -> what its last get_token returned, and when
  firstGet,     \* manager -> what the first get_token on it returned
  tenants_users,  \* the snapshot: tenant_id -> user_ids (line 184)
  mainpc,         \* position of the main script
  exit_code,      \* the process's exit code, NotExited while it runs
  tstate,         \* tenant -> position of its process_tenant task
  tcause,         \* tenant -> what its task raised, "none" if nothing
  tcollected,     \* tenant -> main has taken its future from as_completed
  access_token,   \* tenant -> the local access_token of process_tenant
  all_roles,      \* tenant -> the role catalog, id -> displayName
  utask,          \* tenant -> its process_user tasks, one per user_ids entry
  rows_to_insert, \* tenant -> the local list rows_to_insert
  writes,         \* tenant -> the batches handed to insert_rows_json
  insert_result,  \* tenant -> how its insert_rows_json call ended
  tenant_pool,  \* queued, running and finished tasks of the tenant executor
  observed,     \* one more tenant task: "new" | "queued" | "running" | "done"
  user_pool     \* queued, running and finished tasks of its user executor

credVars == <<token, expires_at, lock, constructed, call, requests,
              windowReqs, callReqs, handout, firstGet>>

pipeVars == <<tenants_users, mainpc, exit_code, tstate, tcause, tcollected,
              access_token, all_roles, utask, rows_to_insert, writes,
              insert_result>>

\* The two executors seen as counters: the tenant tasks but one, that one
\* tenant's task, and its user tasks.
poolVars == <<tenant_pool, observed, user_pool>>

vars == <<now, credVars, pipeVars, poolVars>>

\* What a get_token call returned: the token, and whether the clock was
\* still before the stored expires_at at the return.
Handed(m, t) == [tok |-> token[m], fresh |-> t < expires_at[m]]

NoGet == [tok |-> -1, fresh |-> FALSE]

Returned == {"idle", "refresh_ok", "refresh_raised", "get_ok"}

\* ------------------------------------------------------ AccessTokenManager

\* __init__: token None, expires_at = now, then the eager
\* refresh_access_token_if_needed() of line 24 is entered.
Construct(m, th) ==
  /\ constructed[m] = "no"
  /\ call[th] = "idle"
  /\ token' = [token EXCEPT ![m] = NoToken]
  /\ expires_at' = [expires_at EXCEPT ![m] = now]
  /\ constructed' = [constructed EXCEPT ![m] = "constructing"]
  /\ call' = [call EXCEPT ![th] = "refresh_wait"]
  /\ callReqs' = [callReqs EXCEPT ![th] = 0]
  /\ UNCHANGED <<poolVars, now, lock, requests, windowReqs, handout, firstGet>>

\* The constructor returns, or raises what the eager refresh raised.
ConstructReturn(m, th) ==
  /\ constructed[m] = "constructing"
  /\ call[th] \in {"refresh_ok", "refresh_raised"}
  /\ constructed' = [constructed EXCEPT
                       ![m] = IF call[th] = "refresh_ok" THEN "yes" ELSE "failed"]
  /\ UNCHANGED <<poolVars, now, token, expires_at, lock, call, requests, windowReqs,
                 callReqs, handout, firstGet>>

\* Mutant: the expiry test is dropped, every call refreshes.
NeedsRefresh_Always(m) == now >= expires_at[m] \/ token[m] # NoToken

\* The test of line 42.
NeedsRefresh(m) == now >= expires_at[m]

\* refresh_access_token_if_needed, lines 41-43: take the lock, test the
\* expiry; either send the token request or leave at once.
RefreshEnter(m, th) ==
  /\ call[th] = "refresh_wait"
  /\ lock[m] = NoThread
  /\ IF NeedsRefresh(m)
       THEN /\ requests[m] < MaxRequests
            /\ lock' = [lock EXCEPT ![m] = th]
            /\ call' = [call EXCEPT ![th] = "requesting"]
            /\ requests' = [requests EXCEPT ![m] = @ + 1]
            /\ callReqs' = [callReqs EXCEPT ![th] = @ + 1]
            /\ windowReqs' = [windowReqs EXCEPT
                                ![m] = IF now < expires_at[m] THEN @ + 1 ELSE @]
       ELSE /\ call' = [call EXCEPT ![th] = "refresh_ok"]
            /\ UNCHANGED <<lock, requests, callReqs, windowReqs>>
  /\ UNCHANGED <<poolVars, now, token, expires_at, constructed, handout, firstGet>>

\* get_access_token line 38 and lines 44-45: the response arrives, the
\* credential is replaced and the lock released.
TokenResponseOk(m, th, expires_in) ==
  /\ call[th] = "requesting"
  /\ lock[m] = th
  /\ token' = [token EXCEPT ![m] = requests[m]]
  /\ expires_at' = [expires_at EXCEPT ![m] = now + expires_in - SafetyMargin]
  /\ windowReqs' = [windowReqs EXCEPT ![m] = 1]
  /\ lock' = [lock EXCEPT ![m] = NoThread]
  /\ call' = [call EXCEPT ![th] = "refresh_ok"]
  /\ UNCHANGED <<poolVars, now, constructed, requests, callReqs, handout, firstGet>>

\* Mutant: a failed request throws the held credential away.
TokenResponseFail_Clears(m, th) ==
  /\ call[th] = "requesting"
  /\ lock[m] = th
  /\ token' = [token EXCEPT ![m] = NoToken]
  /\ lock' = [lock EXCEPT ![m] = NoThread]
  /\ call' = [call EXCEPT ![th] = "refresh_raised"]
  /\ UNCHANGED <<poolVars, now, expires_at, constructed, requests, windowReqs,
                 callReqs, handout, firstGet>>

\* requests.post or raise_for_status raises (lines 35-36): the with block
\* releases the lock and the exception leaves the method.
TokenResponseFail(m, th) ==
  /\ call[th] = "requesting"
  /\ lock[m] = th
  /\ lock' = [lock EXCEPT ![m] = NoThread]
  /\ call' = [call EXCEPT ![th] = "refresh_raised"]
  /\ UNCHANGED <<poolVars, now, token, expires_at, constructed, requests, windowReqs,
                 callReqs, handout, firstGet>>

\* Mutant: get_token reads without waiting for the lock.
GetAcquire_NoLock(m, th) ==
  /\ call[th] = "get_wait"
  /\ lock' = [lock EXCEPT ![m] = th]
  /\ call' = [call EXCEPT ![th] = "get_locked"]
  /\ UNCHANGED <<poolVars, now, token, expires_at, constructed, requests, windowReqs,
                 callReqs, handout, firstGet>>

\* get_token line 48: take the lock.
GetAcquire(m, th) ==
  /\ call[th] = "get_wait"
  /\ lock[m] = NoThread
  /\ lock' = [lock EXCEPT ![m] = th]
  /\ call' = [call EXCEPT ![th] = "get_locked"]
  /\ UNCHANGED <<poolVars, now, token, expires_at, constructed, requests, windowReqs,
                 callReqs, handout, firstGet>>

\* get_token line 49: return the held token, release the lock.
GetReturn(m, th) ==
  /\ call[th] = "get_locked"
  /\ lock' = [lock EXCEPT ![m] = IF @ = th THEN NoThread ELSE @]
  /\ call' = [call EXCEPT ![th] = "get_ok"]
  /\ handout' = [handout EXCEPT
                   ![th] = Handed(m, now)]
  /\ firstGet' = [firstGet EXCEPT
                    ![m] = IF @ = NoGet THEN Handed(m, now) ELSE @]
  /\ UNCHANGED <<poolVars, now, token, expires_at, constructed, requests, windowReqs,
                 callReqs>>

\* ------------------------------------------------------------------ clock
SecondsPerDay == 86400

\* The latest start of the script, one step of the clock before midnight.
LateStart == SecondsPerDay - TimeStep

\* The time the clock has advanced since the script started, at 0 or at
\* LateStart.
Elapsed(t) == IF t >= LateStart THEN t - LateStart ELSE t

Tick ==
  /\ Elapsed(now) < MaxTicks * TimeStep
  /\ now' = now + TimeStep
  /\ UNCHANGED <<poolVars, credVars, pipeVars>>

\* A thread calls refresh_access_token_if_needed() on a built manager.
InvokeRefresh(m, th) ==
  /\ constructed[m] = "yes"
  /\ call[th] \in Returned
  /\ call' = [call EXCEPT ![th] = "refresh_wait"]
  /\ callReqs' = [callReqs EXCEPT ![th] = 0]
  /\ UNCHANGED <<poolVars, now, token, expires_at, lock, constructed, requests,
                 windowReqs, handout, firstGet>>

\* A thread calls get_token() on a built manager.
InvokeGetToken(m, th) ==
  /\ constructed[m] = "yes"
  /\ call[th] \in Returned
  /\ call' = [call EXCEPT ![th] = "get_wait"]
  /\ callReqs' = [callReqs EXCEPT ![th] = 0]
  /\ UNCHANGED <<poolVars, now, token, expires_at, lock, constructed, requests,
                 windowReqs, handout, firstGet>>

InitCredVars ==
  /\ token = [m \in Managers |-> NoToken]
  /\ expires_at = [m \in Managers |-> 0]
  /\ lock = [m \in Managers |-> NoThread]
  /\ constructed = [m \in Managers |-> "no"]
  /\ call = [th \in Threads |-> "idle"]
  /\ requests = [m \in Managers |-> 0]
  /\ windowReqs = [m \in Managers |-> 0]
  /\ callReqs = [th \in Threads |-> 0]
  /\ handout = [th \in Threads |-> NoGet]
  /\ firstGet = [m \in Managers |-> NoGet]

\* ------------------------------------------------------- directory data
RoleIds == {"r1", "r2"}
PyNone == "None"                       \* what dict.get gives for a missing key
DirectoryRole == "#microsoft.graph.directoryRole"
Group == "#microsoft.graph.group"
Separator == ", "
\* get_all_roles: the catalogs a tenant may have.
CatalogChoices ==
  { [r \in RoleIds |-> IF r = "r1" THEN "Admin" ELSE "Reader"] }

NoCatalog == [r \in {} |-> PyNone]

\* The 'value' lists the memberOf endpoint may return; "r3" is a role the
\* catalog does not hold.
MembershipChoices ==
  { <<>>,
    <<[id |-> "r1", type |-> DirectoryRole]>>,
    <<[id |-> "g1", type |-> Group], [id |-> "r1", type |-> DirectoryRole],
      [id |-> "r2", type |-> DirectoryRole]>>,
    <<[id |-> "r3", type |-> DirectoryRole]>> }

DisplayNames == {"Alice"}

\* all_roles.get(role['id'])
CatalogGet(cat, id) == IF id \in DOMAIN cat THEN cat[id] ELSE PyNone

\* get_user_roles line 66: keep the directory-role entries, look each up.
RECURSIVE UserRoleNames(_, _)
UserRoleNames(members, cat) ==
  IF members = <<>> THEN <<>>
  ELSE IF Head(members).type = DirectoryRole
         THEN <<CatalogGet(cat, Head(members).id)>> \o UserRoleNames(Tail(members), cat)
         ELSE UserRoleNames(Tail(members), cat)

\* ', '.join(names) raises TypeError when an item is None.
JoinRaises(names) == \E k \in 1..Len(names) : names[k] = PyNone

\* ', '.join(names): the pieces of the resulting string, in order.
RECURSIVE Join(_)
Join(names) ==
  IF Len(names) <= 1 THEN names
  ELSE <<Head(names), Separator>> \o Join(Tail(names))

\* datetime.now().date().isoformat(): the day the clock is in.
DateOf(t) == t \div SecondsPerDay

NoRow == [tenant_id |-> "", user_id |-> 0, display_name |-> "", roles |-> <<>>,
          current_date |-> -1]

\* process_user lines 121-127.
Row(t, uid, name, names) ==
  [tenant_id |-> t, user_id |-> uid, display_name |-> name,
   roles |-> Join(names), current_date |-> DateOf(now)]

NewTask ==
  [pc |-> "new", details |-> "none", roles |-> "none", name |-> PyNone,
   result |-> "none", row |-> NoRow, detailsCalls |-> 0, rolesCalls |-> 0,
   warnings |-> 0, errors |-> 0, collected |-> FALSE]

NotExited == -1

\* ----------------------------------------------------------- the snapshot
UserIds(n) == [k \in 1..n |-> k]

\* get_tenants_users_from_bigquery: one row per tenant with its user ids
\* aggregated: no tenant, tenant A alone with up to MaxUsers users, or
\* tenants A and B, B with no user and A with at most one.
Snapshots ==
  { [t \in {} |-> <<>>] }
  \cup { [t \in {"A"} |-> UserIds(n)] : n \in 0..MaxUsers }
  \cup { [t \in {"A", "B"} |-> IF t = "A" THEN UserIds(n) ELSE UserIds(0)] :
           n \in 0..1 }

Present == DOMAIN tenants_users

InitPipeVars(snap) ==
  /\ tenants_users = snap
  /\ mainpc = "loaded"
  /\ exit_code = NotExited
  /\ tstate = [t \in TenantIds |-> "none"]
  /\ tcause = [t \in TenantIds |-> "none"]
  /\ tcollected = [t \in TenantIds |-> FALSE]
  /\ access_token = [t \in TenantIds |-> NoToken]
  /\ all_roles = [t \in TenantIds |-> NoCatalog]
  /\ utask = [t \in TenantIds |->
                IF t \in DOMAIN snap THEN [k \in 1..Len(snap[t]) |-> NewTask]
                ELSE <<>>]
  /\ rows_to_insert = [t \in TenantIds |-> <<>>]
  /\ writes = [t \in TenantIds |-> <<>>]
  /\ insert_result = [t \in TenantIds |-> "none"]

\* ------------------------------------------------------ the two executors
\* Mutant: the executor starts a thread for every task it is given.
SlotFree_Unbounded(running, width) == running >= 0 /\ width >= 0

\* ThreadPoolExecutor: a queued task is taken when fewer than max_workers
\* tasks of the executor are running.
SlotFree(running, width) == running < width

\* The counters of an executor that was given n tasks.
Submitted(n) == [queued |-> n, running |-> 0, done |-> 0]

Taken(pool) == [pool EXCEPT !.queued = @ - 1, !.running = @ + 1]

Finished(pool) == [pool EXCEPT !.running = @ - 1, !.done = @ + 1]

InitPoolVars ==
  /\ tenant_pool = Submitted(0)
  /\ observed = "new"
  /\ user_pool = Submitted(0)

\* --------------------------------------------- SpecCred: concurrent callers
InitCred ==
  /\ now = 0
  /\ InitCredVars
  /\ InitPipeVars([t \in {} |-> <<>>])
  /\ InitPoolVars

\* One caller builds the manager the callers share.
CallerConstruct == Construct(Shared, "c1") /\ UNCHANGED pipeVars

CallerConstructReturn == ConstructReturn(Shared, "c1") /\ UNCHANGED pipeVars

CallerInvokeRefresh ==
  \E th \in Callers : InvokeRefresh(Shared, th) /\ UNCHANGED pipeVars

CallerInvokeGetToken ==
  \E th \in Callers : InvokeGetToken(Shared, th) /\ UNCHANGED pipeVars

CallerRefreshEnter ==
  \E th \in Callers : RefreshEnter(Shared, th) /\ UNCHANGED pipeVars

CallerTokenResponseOk ==
  \E th \in Callers, e \in ExpiresInChoices :
     TokenResponseOk(Shared, th, e) /\ UNCHANGED pipeVars

CallerTokenResponseFail ==
  \E th \in Callers : TokenResponseFail(Shared, th) /\ UNCHANGED pipeVars

CallerGetAcquire ==
  \E th \in Callers : GetAcquire(Shared, th) /\ UNCHANGED pipeVars

CallerGetReturn ==
  \E th \in Callers : GetReturn(Shared, th) /\ UNCHANGED pipeVars

NextCred ==
  \/ Tick
  \/ CallerConstruct
  \/ CallerConstructReturn
  \/ CallerInvokeRefresh
  \/ CallerInvokeGetToken
  \/ CallerRefreshEnter
  \/ CallerTokenResponseOk
  \/ CallerTokenResponseFail
  \/ CallerGetAcquire
  \/ CallerGetReturn

SpecCred == InitCred /\ [][NextCred]_vars

\* ------------------------------------------------- AccessTokenManager claims
\* The thread that builds manager m.
Owner(m) == IF m = Shared THEN "c1" ELSE m

Requesting(m) == {th \in Threads : MgrOf(th) = m /\ call[th] = "requesting"}

\* C1: calls of refresh_access_token_if_needed that run before the stored
\* expiry send no token request, so a validity window holds exactly one
\* request (the one that opened it), and a manager never has two token
\* requests in flight.
C1_OneRequestPerWindow ==
  \A m \in Managers :
    /\ token[m] # NoToken => windowReqs[m] = 1
    /\ Cardinality(Requesting(m)) <= 1

\* Both callers have called refresh inside one window, neither sent a request.
C1_Witness ==
  /\ call["c1"] = "refresh_ok" /\ callReqs["c1"] = 0
  /\ call["c2"] = "refresh_ok" /\ callReqs["c2"] = 0
  /\ now < expires_at[Shared]
  /\ requests[Shared] = 1

\* C2: every get_token returns while the clock is before the stored
\* expires_at of the credential it hands out.
C2_NeverHandedOutPastExpiry ==
  \A th \in Threads : handout[th] # NoGet => handout[th].fresh

\* C3: construction sends exactly one token request, and the first
\* get_token after it returns a token that is not None and not yet past
\* the stored expiry, whatever expires_in was.
C3_FirstTokenValid ==
  \A m \in Managers :
    /\ constructed[m] = "constructing" =>
         /\ requests[m] <= 1
         /\ call[Owner(m)] = "refresh_ok" => requests[m] = 1
    /\ firstGet[m] # NoGet => firstGet[m].tok # NoToken /\ firstGet[m].fresh

\* C4 as claimed: no get_token caller waits while a token request of the
\* same manager is in flight.
C4_NeverWaitsOnNetwork ==
  \A th \in Threads :
    call[th] = "get_wait" => Requesting(MgrOf(th)) = {}

\* C4 as amended: get_token reads the held token under the manager's lock
\* and sends no token request itself: while it is inside the lock it is the
\* holder, no token request of that manager is in flight, and its call has
\* issued none.
C4_GetTokenDoesNoNetworkIO ==
  \A th \in Threads :
    /\ call[th] = "get_locked" =>
         lock[MgrOf(th)] = th /\ Requesting(MgrOf(th)) = {}
    /\ call[th] \in {"get_wait", "get_locked", "get_ok"} => callReqs[th] = 0

\* get_token holds the lock of a built manager while the other caller waits
\* for it in refresh_access_token_if_needed with the credential expired.
C4_Witness ==
  \E th \in Callers, other \in Callers :
    /\ call[th] = "get_locked"
    /\ call[other] = "refresh_wait"
    /\ token[Shared] # NoToken
    /\ now >= expires_at[Shared]

\* C5: when the token request fails, the exception leaves
\* refresh_access_token_if_needed with the lock released, the call has sent
\* exactly that one request, token and expires_at are as before, and the
\* call sends nothing more: the thread's next step is a new call, and a
\* constructor whose eager refresh raised hands out no manager.
C5_FailurePropagatesNoRetry ==
  [][\A th \in Threads :
       /\ (call[th] = "requesting" /\ call'[th] = "refresh_raised") =>
            /\ token' = token
            /\ expires_at' = expires_at
            /\ requests' = requests
            /\ callReqs'[th] = 1
            /\ lock'[MgrOf(th)] = NoThread
       /\ (call[th] = "refresh_raised" /\ call'[th] # call[th]) =>
            /\ call'[th] \in {"refresh_wait", "get_wait"}
            /\ callReqs'[th] = 0
       /\ (call[th] = "refresh_raised" /\ constructed[MgrOf(th)] = "constructing"
             /\ constructed'[MgrOf(th)] # "constructing") =>
            constructed'[MgrOf(th)] = "failed"]_vars

\* A refresh of a built manager has raised and the held token is still there.
C5_Witness ==
  \E th \in Callers :
    /\ call[th] = "refresh_raised"
    /\ constructed[Shared] = "yes"
    /\ token[Shared] # NoToken
    /\ lock[Shared] = NoThread

\* ------------------------------------------------------------ process_user
DetailsOutcomes == {"ok", "null", "404", "http_error", "conn_error", "other_error"}
RolesOutcomes == {"ok", "http_error", "conn_error", "other_error"}

\* process_user returns None (lines 113, 118, 130).
Skip(task) == [task EXCEPT !.pc = "done", !.result = "skip"]

\* An exception leaves process_user: the future holds it.
Raise(task) == [task EXCEPT !.pc = "done", !.result = "raised"]

\* Mutant: a 404 is logged once, get_user_details keeps quiet about it.
AfterDetails_OneWarning(task, outcome, name) ==
  LET seen == [task EXCEPT !.details = outcome] IN
  CASE outcome = "ok" ->
         [seen EXCEPT !.name = name, !.pc = "roles", !.rolesCalls = @ + 1]
    [] outcome \in {"null", "404"} ->
         Skip([seen EXCEPT !.warnings = @ + 1])
    [] outcome = "http_error" ->
         Skip([seen EXCEPT !.errors = @ + 1, !.warnings = @ + 1])
    [] outcome = "conn_error" ->
         Skip([seen EXCEPT !.errors = @ + 1])
    [] OTHER -> Raise(seen)

\* Mutant: the None test of line 111 is missing, an HTTP failure of the
\* details request goes on to the roles request.
AfterDetails_NoNoneCheck(task, outcome, name) ==
  LET seen == [task EXCEPT !.details = outcome] IN
  CASE outcome \in {"ok", "404", "http_error"} ->
         [seen EXCEPT !.name = name, !.pc = "roles", !.rolesCalls = @ + 1]
    [] outcome = "null" ->
         Skip([seen EXCEPT !.warnings = @ + 1])
    [] outcome = "conn_error" ->
         Skip([seen EXCEPT !.errors = @ + 1])
    [] OTHER -> Raise(seen)

\* Line 110 returns or raises: get_user_details (lines 72-85) under the
\* handlers of process_user. On a name, line 115 sends the roles request.
AfterDetails(task, outcome, name) ==
  LET seen == [task EXCEPT !.details = outcome] IN
  CASE outcome = "ok" ->
         [seen EXCEPT !.name = name, !.pc = "roles", !.rolesCalls = @ + 1]
    [] outcome = "null" ->
         Skip([seen EXCEPT !.warnings = @ + 1])
    [] outcome = "404" ->
         Skip([seen EXCEPT !.warnings = @ + 2])
    [] outcome = "http_error" ->
         Skip([seen EXCEPT !.errors = @ + 1, !.warnings = @ + 1])
    [] outcome = "conn_error" ->
         Skip([seen EXCEPT !.errors = @ + 1])
    [] OTHER -> Raise(seen)

\* Mutant: the handler of line 128 is missing, a ConnectionError of the
\* roles request leaves process_user.
AfterRoles_ConnRaises(task, t, uid, outcome, members, cat) ==
  LET seen == [task EXCEPT !.roles = outcome]
      names == UserRoleNames(members, cat) IN
  CASE outcome = "ok" /\ ~JoinRaises(names) ->
         [seen EXCEPT !.pc = "done", !.result = "record",
                      !.row = Row(t, uid, task.name, names)]
    [] outcome = "http_error" ->
         Skip([seen EXCEPT !.errors = @ + 1, !.warnings = @ + 1])
    [] OTHER -> Raise(seen)

\* Mutant: the None test of line 116 is missing, a user whose roles could
\* not be fetched gets a row with no roles.
AfterRoles_Partial(task, t, uid, outcome, members, cat) ==
  LET seen == [task EXCEPT !.roles = outcome]
      names == UserRoleNames(members, cat) IN
  CASE outcome = "ok" /\ ~JoinRaises(names) ->
         [seen EXCEPT !.pc = "done", !.result = "record",
                      !.row = Row(t, uid, task.name, names)]
    [] outcome = "http_error" ->
         [seen EXCEPT !.pc = "done", !.result = "record", !.errors = @ + 1,
                      !.row = Row(t, uid, task.name, <<>>)]
    [] outcome = "conn_error" ->
         Skip([seen EXCEPT !.errors = @ + 1])
    [] OTHER -> Raise(seen)

\* Line 115 returns or raises: get_user_roles (lines 59-70) under the
\* handlers of process_user, then the row of lines 121-127.
AfterRoles(task, t, uid, outcome, members, cat) ==
  LET seen == [task EXCEPT !.roles = outcome]
      names == UserRoleNames(members, cat) IN
  CASE outcome = "ok" ->
         IF JoinRaises(names) THEN Raise(seen)
         ELSE [seen EXCEPT !.pc = "done", !.result = "record",
                           !.row = Row(t, uid, task.name, names)]
    [] outcome = "http_error" ->
         Skip([seen EXCEPT !.errors = @ + 1, !.warnings = @ + 1])
    [] outcome = "conn_error" ->
         Skip([seen EXCEPT !.errors = @ + 1])
    [] OTHER -> Raise(seen)

RunningUsers(t) ==
  {k \in DOMAIN utask[t] : utask[t][k].pc \in {"details", "roles"}}

\* A pool worker takes the task: process_user sends the details request.
UserStart(t, i) ==
  /\ tstate[t] = "fanout"
  /\ utask[t][i].pc = "queued"
  /\ SlotFree(Cardinality(RunningUsers(t)), UserWorkers)
  /\ utask' = [utask EXCEPT ![t][i].pc = "details", ![t][i].detailsCalls = @ + 1]
  /\ UNCHANGED <<poolVars, now, credVars, tenants_users, mainpc, exit_code, tstate,
                 tcause, tcollected, access_token, all_roles, rows_to_insert,
                 writes, insert_result>>

DetailsResponse(t, i, outcome, name) ==
  /\ utask[t][i].pc = "details"
  /\ utask' = [utask EXCEPT ![t][i] = AfterDetails(@, outcome, name)]
  /\ UNCHANGED <<poolVars, now, credVars, tenants_users, mainpc, exit_code, tstate,
                 tcause, tcollected, access_token, all_roles, rows_to_insert,
                 writes, insert_result>>

RolesResponse(t, i, outcome, members) ==
  /\ utask[t][i].pc = "roles"
  /\ utask' = [utask EXCEPT
                 ![t][i] = AfterRoles(@, t, tenants_users[t][i], outcome,
                                      members, all_roles[t])]
  /\ UNCHANGED <<poolVars, now, credVars, tenants_users, mainpc, exit_code, tstate,
                 tcause, tcollected, access_token, all_roles, rows_to_insert,
                 writes, insert_result>>

\* ---------------------------------------------------------- process_tenant
TenantRunning(t) ==
  tstate[t] \in {"construct", "constructed", "refresh", "get_token",
                 "catalog", "fanout"}

\* A pool worker takes the tenant's task: line 137 builds the manager.
TenantStart(t) ==
  /\ tstate[t] = "queued"
  /\ SlotFree(Cardinality({u \in TenantIds : TenantRunning(u)}), TenantWorkers)
  /\ Construct(t, t)
  /\ tstate' = [tstate EXCEPT ![t] = "construct"]
  /\ UNCHANGED <<tenants_users, mainpc, exit_code, tcause, tcollected,
                 access_token, all_roles, utask, rows_to_insert, writes, insert_result>>

TenantRefreshEnter(t) ==
  /\ tstate[t] \in {"construct", "refresh"}
  /\ RefreshEnter(t, t)
  /\ UNCHANGED pipeVars

TenantTokenResponseOk(t, expires_in) ==
  /\ tstate[t] \in {"construct", "refresh"}
  /\ TokenResponseOk(t, t, expires_in)
  /\ UNCHANGED pipeVars

TenantTokenResponseFail(t) ==
  /\ tstate[t] \in {"construct", "refresh"}
  /\ TokenResponseFail(t, t)
  /\ UNCHANGED pipeVars

\* Line 137 returns the manager.
TenantConstructed(t) ==
  /\ tstate[t] = "construct"
  /\ call[t] = "refresh_ok"
  /\ ConstructReturn(t, t)
  /\ tstate' = [tstate EXCEPT ![t] = "constructed"]
  /\ UNCHANGED <<tenants_users, mainpc, exit_code, tcause, tcollected,
                 access_token, all_roles, utask, rows_to_insert, writes, insert_result>>

\* Line 137 raises: the exception leaves process_tenant.
TenantConstructRaised(t) ==
  /\ tstate[t] = "construct"
  /\ call[t] = "refresh_raised"
  /\ ConstructReturn(t, t)
  /\ tstate' = [tstate EXCEPT ![t] = "failed"]
  /\ tcause' = [tcause EXCEPT ![t] = "token"]
  /\ UNCHANGED <<tenants_users, mainpc, exit_code, tcollected, access_token,
                 all_roles, utask, rows_to_insert, writes, insert_result>>

\* Line 140.
TenantRefresh(t) ==
  /\ tstate[t] = "constructed"
  /\ InvokeRefresh(t, t)
  /\ tstate' = [tstate EXCEPT ![t] = "refresh"]
  /\ UNCHANGED <<tenants_users, mainpc, exit_code, tcause, tcollected,
                 access_token, all_roles, utask, rows_to_insert, writes, insert_result>>

\* Line 140 raises.
TenantRefreshRaised(t) ==
  /\ tstate[t] = "refresh"
  /\ call[t] = "refresh_raised"
  /\ tstate' = [tstate EXCEPT ![t] = "failed"]
  /\ tcause' = [tcause EXCEPT ![t] = "token"]
  /\ UNCHANGED <<poolVars, now, credVars, tenants_users, mainpc, exit_code, tcollected,
                 access_token, all_roles, utask, rows_to_insert, writes, insert_result>>

\* Line 141 calls get_token.
TenantGetToken(t) ==
  /\ tstate[t] = "refresh"
  /\ call[t] = "refresh_ok"
  /\ InvokeGetToken(t, t)
  /\ tstate' = [tstate EXCEPT ![t] = "get_token"]
  /\ UNCHANGED <<tenants_users, mainpc, exit_code, tcause, tcollected,
                 access_token, all_roles, utask, rows_to_insert, writes, insert_result>>

TenantGetAcquire(t) ==
  /\ tstate[t] = "get_token"
  /\ GetAcquire(t, t)
  /\ UNCHANGED pipeVars

TenantGetReturn(t) ==
  /\ tstate[t] = "get_token"
  /\ GetReturn(t, t)
  /\ UNCHANGED pipeVars

\* Lines 141-142: the token is kept in access_token and get_all_roles
\* sends its request.
TenantGetAllRoles(t) ==
  /\ tstate[t] = "get_token"
  /\ call[t] = "get_ok"
  /\ access_token' = [access_token EXCEPT ![t] = handout[t].tok]
  /\ tstate' = [tstate EXCEPT ![t] = "catalog"]
  /\ UNCHANGED <<poolVars, now, credVars, tenants_users, mainpc, exit_code, tcause,
                 tcollected, all_roles, utask, rows_to_insert, writes, insert_result>>

\* get_all_roles returns (line 57); lines 145-149 submit one task per
\* entry of user_ids.
CatalogResponseOk(t, cat) ==
  /\ tstate[t] = "catalog"
  /\ all_roles' = [all_roles EXCEPT ![t] = cat]
  /\ utask' = [utask EXCEPT
                 ![t] = [k \in DOMAIN @ |-> [@[k] EXCEPT !.pc = "queued"]]]
  /\ tstate' = [tstate EXCEPT ![t] = "fanout"]
  /\ UNCHANGED <<poolVars, now, credVars, tenants_users, mainpc, exit_code, tcause,
                 tcollected, access_token, rows_to_insert, writes, insert_result>>

\* Mutant: the failure of get_all_roles is swallowed, the fan-out goes on
\* with an empty catalog.
CatalogResponseFail_Swallowed(t) ==
  /\ tstate[t] = "catalog"
  /\ utask' = [utask EXCEPT
                 ![t] = [k \in DOMAIN @ |-> [@[k] EXCEPT !.pc = "queued"]]]
  /\ tstate' = [tstate EXCEPT ![t] = "fanout"]
  /\ tcause' = [tcause EXCEPT ![t] = "catalog"]
  /\ UNCHANGED <<poolVars, now, credVars, tenants_users, mainpc, exit_code, tcollected,
                 access_token, all_roles, rows_to_insert, writes, insert_result>>

\* get_all_roles raises (line 55).
CatalogResponseFail(t) ==
  /\ tstate[t] = "catalog"
  /\ tstate' = [tstate EXCEPT ![t] = "failed"]
  /\ tcause' = [tcause EXCEPT ![t] = "catalog"]
  /\ UNCHANGED <<poolVars, now, credVars, tenants_users, mainpc, exit_code, tcollected,
                 access_token, all_roles, utask, rows_to_insert, writes, insert_result>>

\* The future of task i may be taken from as_completed.
Collectable(t, i) ==
  /\ utask[t][i].pc = "done"
  /\ ~utask[t][i].collected

\* Lines 153-160 for one completed future.
Collected(task) ==
  IF task.result = "raised"
    THEN [task EXCEPT !.collected = TRUE, !.errors = @ + 1]
    ELSE [task EXCEPT !.collected = TRUE]

\* Mutant: a future that raised empties the list built so far.
Appended_AbortOnRaise(rows, task) ==
  IF task.result = "record" THEN Append(rows, task.row)
  ELSE IF task.result = "raised" THEN <<>> ELSE rows

\* Line 156-157: what the future adds to rows_to_insert.
Appended(rows, task) ==
  IF task.result = "record" THEN Append(rows, task.row) ELSE rows

Collect(t, i) ==
  /\ tstate[t] = "fanout"
  /\ Collectable(t, i)
  /\ utask' = [utask EXCEPT ![t][i] = Collected(@)]
  /\ rows_to_insert' = [rows_to_insert EXCEPT ![t] = Appended(@, utask[t][i])]
  /\ UNCHANGED <<poolVars, now, credVars, tenants_users, mainpc, exit_code, tstate,
                 tcause, tcollected, access_token, all_roles, writes, insert_result>>

\* Mutant: the loop ends when no finished future is left, not when all are.
FanoutOver_NoneWaiting(t) ==
  \A k \in DOMAIN utask[t] : utask[t][k].pc = "done" => utask[t][k].collected

\* The as_completed loop and the executor's with block are over.
FanoutOver(t) == \A k \in DOMAIN utask[t] : utask[t][k].collected

\* Mutant: the test of line 163 is missing.
ShouldInsert_Always(rows) == rows = rows

\* Line 163.
ShouldInsert(rows) == rows # <<>>

InsertOutcomes == {"ok", "errors", "raise"}

\* Lines 163-168: insert_rows_json is called with the rows, or nothing is
\* written; it returns (errors are logged, line 106) or raises.
TenantFlush(t, outcome) ==
  /\ tstate[t] = "fanout"
  /\ FanoutOver(t)
  /\ IF ShouldInsert(rows_to_insert[t])
       THEN /\ writes' = [writes EXCEPT ![t] = Append(@, rows_to_insert[t])]
            /\ tstate' = [tstate EXCEPT
                            ![t] = IF outcome = "raise" THEN "failed" ELSE "done"]
            /\ tcause' = [tcause EXCEPT
                            ![t] = IF outcome = "raise" THEN "insert" ELSE @]
            /\ insert_result' = [insert_result EXCEPT ![t] = outcome]
       ELSE /\ outcome = "ok"
            /\ tstate' = [tstate EXCEPT ![t] = "done"]
            /\ UNCHANGED <<writes, tcause, insert_result>>
  /\ UNCHANGED <<poolVars, now, credVars, tenants_users, mainpc, exit_code, tcollected,
                 access_token, all_roles, utask, rows_to_insert>>

\* --------------------------------------------------------------- __main__
\* Mutant: the empty snapshot ends the script with exit code 0.
MainExitEmpty_ExitZero ==
  /\ mainpc = "loaded"
  /\ Present = {}
  /\ mainpc' = "exited"
  /\ exit_code' = 0
  /\ UNCHANGED <<poolVars, now, credVars, tenants_users, tstate, tcause, tcollected,
                 access_token, all_roles, utask, rows_to_insert, writes,
                 insert_result>>

\* Lines 187-189.
MainExitEmpty ==
  /\ mainpc = "loaded"
  /\ Present = {}
  /\ mainpc' = "exited"
  /\ exit_code' = 1
  /\ UNCHANGED <<poolVars, now, credVars, tenants_users, tstate, tcause, tcollected,
                 access_token, all_roles, utask, rows_to_insert, writes, insert_result>>

\* Lines 193-197: one process_tenant task per snapshot row.
MainSubmit ==
  /\ mainpc = "loaded"
  /\ Present # {}
  /\ mainpc' = "waiting"
  /\ tstate' = [t \in TenantIds |-> IF t \in Present THEN "queued" ELSE "none"]
  /\ UNCHANGED <<poolVars, now, credVars, tenants_users, exit_code, tcause, tcollected,
                 access_token, all_roles, utask, rows_to_insert, writes, insert_result>>

\* Mutant: the exception of a failed tenant future leaves the loop of
\* lines 200-206 and ends the script with exit code 1.
MainCollect_Rethrows(t) ==
  /\ mainpc = "waiting"
  /\ tstate[t] \in {"done", "failed"}
  /\ ~tcollected[t]
  /\ tcollected' = [tcollected EXCEPT ![t] = TRUE]
  /\ mainpc' = IF tstate[t] = "failed" THEN "exited" ELSE mainpc
  /\ exit_code' = IF tstate[t] = "failed" THEN 1 ELSE exit_code
  /\ UNCHANGED <<poolVars, now, credVars, tenants_users, tstate,
                 tcause, access_token, all_roles, utask, rows_to_insert, writes, insert_result>>

\* Lines 200-206 for one finished tenant future; its exception is logged.
MainCollect(t) ==
  /\ mainpc = "waiting"
  /\ tstate[t] \in {"done", "failed"}
  /\ ~tcollected[t]
  /\ tcollected' = [tcollected EXCEPT ![t] = TRUE]
  /\ UNCHANGED <<poolVars, now, credVars, tenants_users, mainpc, exit_code, tstate,
                 tcause, access_token, all_roles, utask, rows_to_insert, writes, insert_result>>

\* Mutant: a failed tenant turns the exit code to 1.
MainDone_ExitOnFailure ==
  /\ mainpc = "waiting"
  /\ \A t \in Present : tcollected[t]
  /\ mainpc' = "done"
  /\ exit_code' = IF \E t \in Present : tstate[t] = "failed" THEN 1 ELSE 0
  /\ UNCHANGED <<poolVars, now, credVars, tenants_users, tstate, tcause, tcollected,
                 access_token, all_roles, utask, rows_to_insert, writes,
                 insert_result>>

\* Line 208 and the end of the script.
MainDone ==
  /\ mainpc = "waiting"
  /\ \A t \in Present : tcollected[t]
  /\ mainpc' = "done"
  /\ exit_code' = 0
  /\ UNCHANGED <<poolVars, now, credVars, tenants_users, tstate, tcause, tcollected,
                 access_token, all_roles, utask, rows_to_insert, writes, insert_result>>

\* ------------------------------------------------------- Spec: the script
Init ==
  /\ now = 0
  /\ InitCredVars
  /\ \E snap \in Snapshots : InitPipeVars(snap)
  /\ InitPoolVars

Next ==
  \/ Tick
  \/ MainExitEmpty
  \/ MainSubmit
  \/ \E t \in TenantIds : TenantStart(t)
  \/ \E t \in TenantIds : TenantRefreshEnter(t)
  \/ \E t \in TenantIds, e \in ExpiresInChoices : TenantTokenResponseOk(t, e)
  \/ \E t \in TenantIds : TenantTokenResponseFail(t)
  \/ \E t \in TenantIds : TenantConstructed(t)
  \/ \E t \in TenantIds : TenantConstructRaised(t)
  \/ \E t \in TenantIds : TenantRefresh(t)
  \/ \E t \in TenantIds : TenantRefreshRaised(t)
  \/ \E t \in TenantIds : TenantGetToken(t)
  \/ \E t \in TenantIds : TenantGetAcquire(t)
  \/ \E t \in TenantIds : TenantGetReturn(t)
  \/ \E t \in TenantIds : TenantGetAllRoles(t)
  \/ \E t \in TenantIds, cat \in CatalogChoices : CatalogResponseOk(t, cat)
  \/ \E t \in TenantIds : CatalogResponseFail(t)
  \/ \E t \in TenantIds : \E i \in DOMAIN utask[t] : UserStart(t, i)
  \/ \E t \in TenantIds : \E i \in DOMAIN utask[t] :
       \E o \in DetailsOutcomes, n \in DisplayNames : DetailsResponse(t, i, o, n)
  \/ \E t \in TenantIds : \E i \in DOMAIN utask[t] :
       \E o \in RolesOutcomes, ms \in MembershipChoices : RolesResponse(t, i, o, ms)
  \/ \E t \in TenantIds : \E i \in DOMAIN utask[t] : Collect(t, i)
  \/ \E t \in TenantIds, o \in InsertOutcomes : TenantFlush(t, o)
  \/ \E t \in TenantIds : MainCollect(t)
  \/ MainDone

Spec == Init /\ [][Next]_vars

\* The script started shortly before midnight.
InitMidnight ==
  /\ now = LateStart
  /\ InitCredVars
  /\ \E snap \in Snapshots : InitPipeVars(snap)
  /\ InitPoolVars

SpecMidnight == InitMidnight /\ [][Next]_vars

\* A step of the script, its threads or the services they wait for: any
\* step but the passing of time.
ProgramStep == Next /\ now' = now

\* The snapshots that leave room for one more user in every tenant.
FairSnapshots ==
  {snap \in Snapshots : \A t \in DOMAIN snap : Len(snap[t]) < MaxUsers}

InitFair ==
  /\ now = 0
  /\ InitCredVars
  /\ \E snap \in FairSnapshots : InitPipeVars(snap)
  /\ InitPoolVars

\* Every external call eventually returns or fails and the threads are
\* scheduled fairly: a step of the program that stays possible is taken.
FairSpec == InitFair /\ [][Next]_vars /\ WF_vars(ProgramStep)

\* ------------------------------------------ SpecPool: the executors, full
\* A snapshot with one tenant more than the tenant executor has workers; one
\* of the tenants has one user more than a user executor has workers, the
\* other tenants have none.
PoolTenants == TenantWorkers + 1

PoolUsers == UserWorkers + 1

TenantsRunning ==
  tenant_pool.running + (IF observed = "running" THEN 1 ELSE 0)

\* Lines 193-197: every tenant of the snapshot is submitted.
PoolSubmit ==
  /\ observed = "new"
  /\ observed' = "queued"
  /\ tenant_pool' = Submitted(PoolTenants - 1)
  /\ UNCHANGED <<now, credVars, pipeVars, user_pool>>

\* A worker of the tenant executor takes the task of a tenant without users.
PoolTenantTake ==
  /\ tenant_pool.queued > 0
  /\ SlotFree(TenantsRunning, TenantWorkers)
  /\ tenant_pool' = Taken(tenant_pool)
  /\ UNCHANGED <<now, credVars, pipeVars, observed, user_pool>>

\* process_tenant returns or raises for a tenant without users.
PoolTenantReturn ==
  /\ tenant_pool.running > 0
  /\ tenant_pool' = Finished(tenant_pool)
  /\ UNCHANGED <<now, credVars, pipeVars, observed, user_pool>>

\* A worker takes the task of the tenant with users, which reaches lines
\* 145-149 and submits one process_user task per user.
PoolObservedTake ==
  /\ observed = "queued"
  /\ SlotFree(TenantsRunning, TenantWorkers)
  /\ observed' = "running"
  /\ user_pool' = Submitted(PoolUsers)
  /\ UNCHANGED <<now, credVars, pipeVars, tenant_pool>>

\* A worker of the user executor takes a process_user task.
PoolUserTake ==
  /\ observed = "running"
  /\ user_pool.queued > 0
  /\ SlotFree(user_pool.running, UserWorkers)
  /\ user_pool' = Taken(user_pool)
  /\ UNCHANGED <<now, credVars, pipeVars, tenant_pool, observed>>

\* A process_user task returns or raises.
PoolUserReturn ==
  /\ user_pool.running > 0
  /\ user_pool' = Finished(user_pool)
  /\ UNCHANGED <<now, credVars, pipeVars, tenant_pool, observed>>

\* Lines 152-168: every user future was collected, process_tenant ends.
PoolObservedReturn ==
  /\ observed = "running"
  /\ user_pool.done = PoolUsers
  /\ observed' = "done"
  /\ UNCHANGED <<now, credVars, pipeVars, tenant_pool, user_pool>>

InitPool ==
  /\ now = 0
  /\ InitCredVars
  /\ InitPipeVars([t \in {} |-> <<>>])
  /\ InitPoolVars

NextPool ==
  \/ PoolSubmit
  \/ PoolTenantTake
  \/ PoolTenantReturn
  \/ PoolObservedTake
  \/ PoolUserTake
  \/ PoolUserReturn
  \/ PoolObservedReturn

SpecPool == InitPool /\ [][NextPool]_vars

\* ------------------------------------------------------------ script claims
\* The rows of a sequence of rows, as a set.
RowSet(rows) == {rows[k] : k \in DOMAIN rows}

\* Every row that is in the tenant's list or was handed to the store.
BatchRows(t) ==
  RowSet(rows_to_insert[t])
    \cup UNION {RowSet(writes[t][w]) : w \in DOMAIN writes[t]}

HasRowFor(t, uid) == \E r \in BatchRows(t) : r.user_id = uid

\* C6: a user whose details request ended in a 404 or another HTTP error
\* has no row in the tenant's batch and no roles request; a roles request
\* is only ever sent after the one details request returned a name.
C6_NotFoundMeansNoRolesFetch ==
  \A t \in TenantIds : \A i \in DOMAIN utask[t] :
    LET u == utask[t][i] IN
    /\ u.details \in {"404", "http_error"} =>
         /\ u.rolesCalls = 0
         /\ u.roles = "none"
         /\ ~HasRowFor(t, tenants_users[t][i])
    /\ u.rolesCalls > 0 =>
         /\ u.details = "ok"
         /\ u.detailsCalls = 1
         /\ u.rolesCalls = 1

\* A tenant wrote a batch although one of its users got a 404.
C6_Witness ==
  \E t \in TenantIds : \E i \in DOMAIN utask[t] :
    /\ utask[t][i].details = "404"
    /\ utask[t][i].collected
    /\ tstate[t] = "done"
    /\ writes[t] # <<>>

\* C7: a user whose roles request ended in an HTTP error has no row in the
\* batch although its name was fetched, and every row of a batch belongs to
\* a task whose details and roles requests both succeeded.
C7_RolesUnavailableMeansNoRow ==
  \A t \in TenantIds :
    /\ \A i \in DOMAIN utask[t] :
         utask[t][i].roles = "http_error" =>
           /\ utask[t][i].details = "ok"
           /\ utask[t][i].result = "skip"
           /\ ~HasRowFor(t, tenants_users[t][i])
    /\ \A r \in BatchRows(t) :
         \E i \in DOMAIN utask[t] :
           /\ utask[t][i].details = "ok"
           /\ utask[t][i].roles = "ok"
           /\ utask[t][i].result = "record"
           /\ utask[t][i].row = r
           /\ r.user_id = tenants_users[t][i]
           /\ r.display_name = utask[t][i].name

\* A tenant wrote a batch although the roles of one of its users were
\* unavailable.
C7_Witness ==
  \E t \in TenantIds : \E i \in DOMAIN utask[t] :
    /\ utask[t][i].roles = "http_error"
    /\ utask[t][i].name \in DisplayNames
    /\ utask[t][i].collected
    /\ tstate[t] = "done"
    /\ writes[t] # <<>>

\* The tenant's task is past line 163.
TenantOver(t) == tstate[t] = "done" \/ (tstate[t] = "failed" /\ tcause[t] = "insert")

\* C8: insert_rows_json is called for a tenant at most once, only after
\* every user task of the tenant has completed and been collected, with the
\* accumulated rows, and exactly when those are non-empty; a reported or
\* raised insert failure leaves it at that one call.
C8_WriteOnceAfterFanout ==
  \A t \in TenantIds :
    /\ Len(writes[t]) <= 1
    /\ writes[t] # <<>> =>
         /\ \A i \in DOMAIN utask[t] :
              utask[t][i].pc = "done" /\ utask[t][i].collected
         /\ writes[t][1] = rows_to_insert[t]
         /\ rows_to_insert[t] # <<>>
         /\ insert_result[t] \in InsertOutcomes
    /\ TenantOver(t) => (writes[t] # <<>> <=> rows_to_insert[t] # <<>>)
    /\ insert_result[t] # "none" => Len(writes[t]) = 1 /\ TenantOver(t)

\* A tenant's task is over after an insert that reported errors, and the
\* store was called once.
C8_Witness ==
  \E t \in TenantIds :
    /\ insert_result[t] = "errors"
    /\ tstate[t] = "done"
    /\ Len(writes[t]) = 1
    /\ Len(utask[t]) > 1

\* C9: an exception that leaves process_user is caught where the future is
\* collected: the tenant's task fails only before its fan-out or in the
\* insert, a collected raising task is logged as an error, and once the
\* task is over every user that resolved fully has its row in the batch
\* handed to the store.
C9_UserExceptionIsASkip ==
  \A t \in TenantIds :
    /\ (tstate[t] = "failed" /\ tcause[t] # "insert") =>
         \A i \in DOMAIN utask[t] : utask[t][i].pc = "new"
    /\ \A i \in DOMAIN utask[t] :
         /\ (utask[t][i].result = "raised" /\ utask[t][i].collected) =>
              utask[t][i].errors = 1 /\ tstate[t] \in {"fanout", "done", "failed"}
         /\ (utask[t][i].result = "record" /\ TenantOver(t)) =>
              /\ Len(writes[t]) = 1
              /\ utask[t][i].row \in RowSet(writes[t][1])

\* A tenant's task completed normally with one user task that raised and a
\* sibling whose row was written.
C9_Witness ==
  \E t \in TenantIds : \E i, j \in DOMAIN utask[t] :
    /\ utask[t][i].result = "raised"
    /\ utask[t][j].result = "record"
    /\ tstate[t] = "done"
    /\ utask[t][j].row \in RowSet(writes[t][1])

\* C10: with a non-empty snapshot the exit code is never anything but 0,
\* and when the script ends every tenant's task is over, whether it raised
\* or not, and every tenant that did not raise has written its rows.
C10_TenantFailureIsContained ==
  /\ Present # {} => exit_code \in {NotExited, 0}
  /\ mainpc = "done" =>
       /\ exit_code = 0
       /\ \A t \in Present :
            /\ tstate[t] \in {"done", "failed"}
            /\ tcollected[t]
            /\ (tstate[t] = "done" /\ rows_to_insert[t] # <<>>) =>
                 writes[t] = <<rows_to_insert[t]>>

\* The script ended with exit code 0, one tenant's task raised before its
\* fan-out and a sibling tenant wrote its batch.
C10_Witness ==
  \E t, u \in Present :
    /\ mainpc = "done"
    /\ exit_code = 0
    /\ tstate[t] = "failed"
    /\ tcause[t] \in {"token", "catalog"}
    /\ tstate[u] = "done"
    /\ writes[u] # <<>>

\* The user tasks of a tenant whose details and roles requests both succeeded.
Resolved(t) ==
  {i \in DOMAIN utask[t] : utask[t][i].details = "ok" /\ utask[t][i].roles = "ok"}

\* C11: once a tenant's task is past the insert, the batch it handed to the
\* store holds exactly one row for every user task whose details and
\* membership lookups both succeeded, whatever ids the memberships carry,
\* and nothing is written when there is no such task.
C11_BatchIsExactlyTheResolvedUsers ==
  \A t \in TenantIds :
    TenantOver(t) =>
      IF Resolved(t) = {} THEN writes[t] = <<>>
      ELSE /\ Len(writes[t]) = 1
           /\ Len(writes[t][1]) = Cardinality(Resolved(t))
           /\ \A i \in Resolved(t) :
                \E r \in RowSet(writes[t][1]) :
                  /\ r.tenant_id = t
                  /\ r.user_id = tenants_users[t][i]
                  /\ r.display_name = utask[t][i].name

\* C12 as claimed: a user whose details request got a 404 has exactly one
\* warning line.
C12_ExactlyOneWarning ==
  \A t \in TenantIds : \A i \in DOMAIN utask[t] :
    utask[t][i].details = "404" => utask[t][i].warnings = 1

\* C12 as amended: a user whose details request got a 404 has exactly two
\* warning lines, the one of get_user_details and the one of process_user,
\* and no error line, also after its future was collected.
C12_TwoWarningsOn404 ==
  \A t \in TenantIds : \A i \in DOMAIN utask[t] :
    utask[t][i].details = "404" =>
      /\ utask[t][i].warnings = 2
      /\ utask[t][i].errors = 0
      /\ utask[t][i].result = "skip"

\* The script ended and a user's details request had got a 404.
C12_Witness ==
  \E t \in TenantIds : \E i \in DOMAIN utask[t] :
    /\ utask[t][i].details = "404"
    /\ utask[t][i].collected
    /\ mainpc = "done"

\* C13: a tenant with an empty user_ids list has no user task, its list of
\* rows stays empty, insert_rows_json is never called for it, and its task
\* can only raise in the token or catalog fetch: past those it ends normally.
C13_EmptyTenantWritesNothing ==
  \A t \in Present :
    tenants_users[t] = <<>> =>
      /\ utask[t] = <<>>
      /\ rows_to_insert[t] = <<>>
      /\ writes[t] = <<>>
      /\ insert_result[t] = "none"
      /\ tstate[t] = "failed" => tcause[t] \in {"token", "catalog"}

\* A tenant with no user got its token and catalog and its task is over.
C13_Witness ==
  \E t \in Present :
    /\ tenants_users[t] = <<>>
    /\ all_roles[t] \in CatalogChoices
    /\ tstate[t] = "done"
    /\ tcollected[t]

\* C14: with an empty snapshot the script submits no tenant task, sends no
\* token request, builds no manager, never calls the store, and ends with
\* exit code 1 and no other.
C14_EmptySnapshotExitsOne ==
  Present = {} =>
    /\ mainpc \in {"loaded", "exited"}
    /\ exit_code \in {NotExited, 1}
    /\ mainpc = "exited" <=> exit_code = 1
    /\ \A t \in TenantIds :
         /\ tstate[t] = "none"
         /\ constructed[t] = "no"
         /\ requests[t] = 0
         /\ writes[t] = <<>>

\* The script ended on an empty snapshot.
C14_Witness ==
  /\ Present = {}
  /\ mainpc = "exited"
  /\ exit_code = 1

\* C17: a tenant whose token fetch or catalog fetch raised has a failed
\* task, none of its user tasks was ever started, nothing was collected or
\* written for it, and the script's exit code is untouched.
C17_TenantPreconditionFailure ==
  \A t \in TenantIds :
    tcause[t] \in {"token", "catalog"} =>
      /\ tstate[t] = "failed"
      /\ \A i \in DOMAIN utask[t] :
           utask[t][i].pc = "new" /\ utask[t][i].detailsCalls = 0
      /\ rows_to_insert[t] = <<>>
      /\ writes[t] = <<>>
      /\ exit_code \in {NotExited, 0}

\* The script ended normally although the catalog fetch of a tenant with a
\* user had raised.
C17_Witness ==
  \E t \in Present :
    /\ tcause[t] = "catalog"
    /\ Len(utask[t]) > 0
    /\ tcollected[t]
    /\ mainpc = "done"
    /\ exit_code = 0

\* C18: a ConnectionError of the details or of the roles request ends the
\* user task with a skip, never with an exception, logged once as an error,
\* and the user has no row in the batch.
C18_ConnectionErrorIsASkip ==
  \A t \in TenantIds : \A i \in DOMAIN utask[t] :
    (utask[t][i].details = "conn_error" \/ utask[t][i].roles = "conn_error") =>
      /\ utask[t][i].pc = "done"
      /\ utask[t][i].result = "skip"
      /\ utask[t][i].errors = 1
      /\ ~HasRowFor(t, tenants_users[t][i])

\* A tenant's task ended normally after the roles request of one of its
\* users met a ConnectionError.
C18_Witness ==
  \E t \in TenantIds : \E i \in DOMAIN utask[t] :
    /\ utask[t][i].roles = "conn_error"
    /\ utask[t][i].collected
    /\ tstate[t] = "done"

\* C20: whenever a user worker sends its details or roles request, the
\* clock is before the stored expiry of the tenant's credential.
C20_CallsCarryFreshToken ==
  [][\A t \in TenantIds : \A i \in DOMAIN utask[t] :
       (\/ utask'[t][i].detailsCalls > utask[t][i].detailsCalls
        \/ utask'[t][i].rolesCalls > utask[t][i].rolesCalls) =>
         now < expires_at[t]]_vars

\* C15: all rows produced in one run, in the lists of rows and in the
\* batches handed to the store, carry the same current_date.
C15_OneSnapshotDatePerRun ==
  \A t1 \in TenantIds, t2 \in TenantIds :
    \A r1 \in BatchRows(t1), r2 \in BatchRows(t2) :
      r1.current_date = r2.current_date

\* The script logged its completion with exit code 0 after the task of
\* every tenant of the snapshot ended, normally or raising, and was collected.
RunCompleted ==
  /\ mainpc = "done"
  /\ exit_code = 0
  /\ \A t \in Present : tstate[t] \in {"done", "failed"} /\ tcollected[t]

\* C16: under fair scheduling and answering services, a run over a
\* non-empty snapshot eventually ends with exit code 0 after the task of
\* every tenant was started, finished and collected, however many tenants
\* or users failed.
C16_NonEmptyRunCompletes == (Present # {}) ~> RunCompleted

\* A run over two tenants completed although a tenant's task raised and a
\* user's task raised.
C16_Witness ==
  /\ RunCompleted
  /\ Cardinality(Present) = 2
  /\ \E t \in Present : tstate[t] = "failed"
  /\ \E t \in Present : \E i \in DOMAIN utask[t] : utask[t][i].result = "raised"

\* C19: at most TenantWorkers tenant tasks and at most UserWorkers user
\* tasks of a tenant run at once, and a queued task is taken as soon as its
\* own executor has a free worker, whatever the tasks that are running, in
\* this or in the other executor, are waiting for.
C19_PoolsBoundConcurrency ==
  /\ TenantsRunning <= TenantWorkers
  /\ user_pool.running <= UserWorkers
  /\ (tenant_pool.queued > 0 /\ TenantsRunning < TenantWorkers) =>
       ENABLED PoolTenantTake
  /\ (observed = "queued" /\ TenantsRunning < TenantWorkers) =>
       ENABLED PoolObservedTake
  /\ (observed = "running" /\ user_pool.queued > 0
        /\ user_pool.running < UserWorkers) =>
       ENABLED PoolUserTake

\* Both executors are full with a task still queued in each, and the user
\* executor has a free worker again after one of its tasks returned while
\* the others are still in their calls.
C19_Witness ==
  /\ TenantsRunning = TenantWorkers
  /\ tenant_pool.queued = 1
  /\ user_pool.running = UserWorkers - 1
  /\ user_pool.queued = 1
  /\ user_pool.done = 1

====
